---- MODULE Spec2Model ----
(***************************************************************************)
(* Model of the time-series core of educk-rs: timestamp reconstruction     *)
(* (Period::timestamped_points), cross-series aggregation                   *)
(* (GlMarketDocument::all_timestamped_points) and the renewable-surplus     *)
(* join (EntsoeClient::find_max_renewable_surplus and                       *)
(* EntsoeClient::get_renewable_surplus_series).                             *)
(*                                                                         *)
(* Conventions.                                                            *)
(*  - A Rust String is a sequence of one-character strings.                 *)
(*  - A DateTime<Utc> is the number of seconds since 1970-01-01T00:00:00Z;  *)
(*    a chrono Duration is a number of seconds.                             *)
(*  - A u32 is a record [top, low] standing for top * 2^31 + low, so that   *)
(*    the whole 32-bit range is representable; an i32 is an integer.        *)
(*  - An f64 quantity is an integer number of MW: on integers of this size  *)
(*    f64 addition and subtraction are exact.  NaN and infinities are not   *)
(*    part of the data.                                                     *)
(*  - A Result is a record tagged "Ok" or "Err".                            *)
(***************************************************************************)
EXTENDS Integers, Sequences, FiniteSets, TLC

\* i32::MAX, the largest value of the type the position is cast to.
I32Max == 2147483647

----------------------------------------------------------------------------
(* Results and errors (EntsoeError)                                        *)

Ok(v) == [tag |-> "Ok", val |-> v]

Err(kind, text) == [tag |-> "Err", kind |-> kind, text |-> text]

IsOk(r) == r.tag = "Ok"

IsErr(r) == r.tag = "Err"

\* The value of a variable that holds no result yet.
NoResult == [tag |-> "None"]

----------------------------------------------------------------------------
(* Strings and numbers                                                     *)

Digits == {"0", "1", "2", "3", "4", "5", "6", "7", "8", "9"}

DigitVal(c) ==
    CASE c = "0" -> 0 [] c = "1" -> 1 [] c = "2" -> 2 [] c = "3" -> 3
      [] c = "4" -> 4 [] c = "5" -> 5 [] c = "6" -> 6 [] c = "7" -> 7
      [] c = "8" -> 8 [] c = "9" -> 9

AllDigits(s) == \A i \in 1..Len(s) : s[i] \in Digits

\* The value of a non-empty string of decimal digits.
RECURSIVE DecimalVal(_)
DecimalVal(s) ==
    IF Len(s) = 0 THEN 0
    ELSE 10 * DecimalVal(SubSeq(s, 1, Len(s) - 1)) + DigitVal(s[Len(s)])

\* str::parse::<i64>: an optional sign followed by at least one digit.
ParseI64(s) ==
    IF Len(s) = 0 THEN Err("ParseIntError", s)
    ELSE IF s[1] \in {"+", "-"}
         THEN LET rest == Tail(s)
              IN IF Len(rest) = 0 \/ ~AllDigits(rest) THEN Err("ParseIntError", s)
                 ELSE IF s[1] = "-" THEN Ok(0 - DecimalVal(rest))
                 ELSE Ok(DecimalVal(rest))
         ELSE IF AllDigits(s) THEN Ok(DecimalVal(s))
         ELSE Err("ParseIntError", s)

starts_with(s, prefix) ==
    /\ Len(s) >= Len(prefix)
    /\ SubSeq(s, 1, Len(prefix)) = prefix

ends_with(s, suffix) ==
    /\ Len(s) >= Len(suffix)
    /\ SubSeq(s, Len(s) - Len(suffix) + 1, Len(s)) = suffix

\* A u32 below 2^31.
U32(n) == [top |-> 0, low |-> n]

\* u32::MAX = 2^32 - 1.
U32Max == [top |-> 1, low |-> I32Max]

\* `x as i32` for a u32 x: the same 32 bits read in two's complement.
AsI32(x) == IF x.top = 0 THEN x.low ELSE x.low - I32Max - 1

\* `n as u32` for a small usize n.
UsizeAsU32(n) == U32(n)

----------------------------------------------------------------------------
(* parse_resolution and parse_timestamp                                    *)

\* chrono::Duration::minutes, in seconds.
DurationMinutes(m) == m * 60

\* The end of parse_resolution: the map_err, the `?` and Duration::minutes.
minutes_to_duration(minutes, resolution) ==
    IF IsErr(minutes) THEN Err("InvalidResolution", resolution)
    ELSE Ok(DurationMinutes(minutes.val))

parse_resolution(resolution) ==
    IF ~starts_with(resolution, <<"P", "T">>) \/ ~ends_with(resolution, <<"M">>)
    THEN Err("InvalidResolution", resolution)
    ELSE minutes_to_duration(ParseI64(SubSeq(resolution, 3, Len(resolution) - 1)),
                             resolution)

IsLeap(y) == (y % 4 = 0 /\ y % 100 # 0) \/ y % 400 = 0

DaysInMonth(y, m) ==
    IF m = 2 THEN (IF IsLeap(y) THEN 29 ELSE 28)
    ELSE IF m \in {4, 6, 9, 11} THEN 30 ELSE 31

\* Days from 1970-01-01 to the civil date y-m-d (proleptic Gregorian).
DaysFromCivil(y, m, d) ==
    LET yy  == IF m <= 2 THEN y - 1 ELSE y
        era == yy \div 400
        yoe == yy - era * 400
        mp  == (m + 9) % 12
        doy == (153 * mp + 2) \div 5 + d - 1
        doe == yoe * 365 + yoe \div 4 - yoe \div 100 + doy
    IN era * 146097 + doe - 719468

\* The instant of the fields of a timestamp, when they are in range.
CivilToTimestamp(y, mo, d, h, mi, se, s) ==
    IF /\ mo \in 1..12
       /\ d \in 1..DaysInMonth(y, mo)
       /\ h \in 0..23 /\ mi \in 0..59 /\ se \in 0..59
    THEN Ok(((DaysFromCivil(y, mo, d) * 24 + h) * 60 + mi) * 60 + se)
    ELSE Err("ParseError", s)

\* DateTime::parse_from_rfc3339 followed by with_timezone(&Utc), for the
\* form YYYY-MM-DDTHH:MM:SSZ; every other string is rejected.
ParseRfc3339(s) ==
    IF /\ Len(s) = 20
       /\ \A i \in {1, 2, 3, 4, 6, 7, 9, 10, 12, 13, 15, 16, 18, 19} : s[i] \in Digits
       /\ s[5] = "-" /\ s[8] = "-" /\ s[11] = "T"
       /\ s[14] = ":" /\ s[17] = ":" /\ s[20] = "Z"
    THEN CivilToTimestamp(DecimalVal(SubSeq(s, 1, 4)), DecimalVal(SubSeq(s, 6, 7)),
                          DecimalVal(SubSeq(s, 9, 10)), DecimalVal(SubSeq(s, 12, 13)),
                          DecimalVal(SubSeq(s, 15, 16)), DecimalVal(SubSeq(s, 18, 19)), s)
    ELSE Err("ParseError", s)

\* The text put after the last byte instead of at byte idx.
insert_str_AtEnd(s, idx, t) == s \o t

\* String::insert_str(idx, t) with a 0-based byte index.
insert_str(s, idx, t) == SubSeq(s, 1, idx) \o t \o SubSeq(s, idx + 1, Len(s))

\* The map_err of parse_timestamp.
map_timestamp_err(parsed, timestamp) ==
    IF IsOk(parsed) THEN parsed ELSE Err("InvalidTimestamp", timestamp)

parse_timestamp(timestamp) ==
    map_timestamp_err(
        ParseRfc3339(IF Len(timestamp) = 17 /\ ends_with(timestamp, <<"Z">>)
                     THEN insert_str(timestamp, 16, <<":", "0", "0">>)
                     ELSE timestamp),
        timestamp)

----------------------------------------------------------------------------
(* Period::timestamped_points                                              *)

\* Duration * i32 and DateTime + Duration.  The `- 1` overflows i32 only for
\* the position 2^31 (a panic in a debug build, a wrap to i32::MAX in a release
\* build); WirePositions holds no such position.
TimestampAt(start_time, resolution_duration, position) ==
    LET offset == resolution_duration * (AsI32(position) - 1)
    IN start_time + offset

\* The points numbered by their place in the list instead of carrying their
\* wire position.
map_points_Renumbered(start_time, resolution_duration, points) ==
    IF IsErr(start_time) THEN start_time
    ELSE IF IsErr(resolution_duration) THEN resolution_duration
    ELSE Ok([i \in 1..Len(points) |->
               [timestamp |-> TimestampAt(start_time.val, resolution_duration.val,
                                          points[i].position),
                position  |-> UsizeAsU32(i),
                quantity  |-> points[i].quantity]])

\* timestamped_points once the start and the resolution are parsed: each `?`
\* returns the error, otherwise every point is mapped.
map_points(start_time, resolution_duration, points) ==
    IF IsErr(start_time) THEN start_time
    ELSE IF IsErr(resolution_duration) THEN resolution_duration
    ELSE Ok([i \in 1..Len(points) |->
               [timestamp |-> TimestampAt(start_time.val, resolution_duration.val,
                                          points[i].position),
                position  |-> points[i].position,
                quantity  |-> points[i].quantity]])

timestamped_points(p) ==
    map_points(parse_timestamp(p.start), parse_resolution(p.resolution), p.points)

----------------------------------------------------------------------------
(* GlMarketDocument::all_timestamped_points and total_forecast             *)

\* *timestamp_map.entry(ts).or_insert(0.0) += quantity, doubling the first
\* quantity of a key (or_insert(quantity) in place of or_insert(0.0)).
entry_add_DoubleFirst(map, ts, quantity) ==
    IF ts \in DOMAIN map
    THEN [map EXCEPT ![ts] = @ + quantity]
    ELSE map @@ (ts :> quantity + quantity)

\* timestamp_map.insert(ts, quantity): a later quantity replaces the earlier.
entry_add_Overwrite(map, ts, quantity) ==
    IF ts \in DOMAIN map
    THEN [map EXCEPT ![ts] = quantity]
    ELSE map @@ (ts :> quantity)

\* *timestamp_map.entry(ts).or_insert(0.0) += quantity
entry_add(map, ts, quantity) ==
    IF ts \in DOMAIN map
    THEN [map EXCEPT ![ts] = @ + quantity]
    ELSE map @@ (ts :> 0 + quantity)

\* The inner loop: every point of one sub-series goes into the map.
RECURSIVE add_points(_, _)
add_points(map, points) ==
    IF Len(points) = 0 THEN map
    ELSE add_points(entry_add(map, Head(points).timestamp, Head(points).quantity),
                    Tail(points))

\* The outer loop: the sub-series in document order; the first malformed
\* sub-series ends the call with its error.
RECURSIVE aggregate_series(_, _)
\* A malformed sub-series skipped and the rest of the document aggregated.
add_series_SkipMalformed(map, points, rest) ==
    IF IsErr(points) THEN aggregate_series(map, rest)
    ELSE aggregate_series(add_points(map, points.val), rest)

add_series(map, points, rest) ==
    IF IsErr(points) THEN points
    ELSE aggregate_series(add_points(map, points.val), rest)

aggregate_series(map, series) ==
    IF Len(series) = 0 THEN Ok(map)
    ELSE add_series(map, timestamped_points(Head(series).period), Tail(series))

\* The empty HashMap.
EmptyMap == [t \in {} |-> 0]

\* HashMap::insert: the value replaces the one the key had.
map_insert(map, key, value) ==
    [t \in DOMAIN map \cup {key} |-> IF t = key THEN value ELSE map[t]]

timestamp_map(document) == aggregate_series(EmptyMap, document.time_series)

\* All sequences that hold every element of S once.
RECURSIVE KeyOrders(_)
KeyOrders(S) ==
    IF S = {} THEN {<< >>}
    ELSE UNION {{<<x>> \o rest : rest \in KeyOrders(S \ {x})} : x \in S}

\* HashMap::into_iter visits the keys in an order the hasher decides: any
\* order is possible.
MapOrders(m) == IF IsOk(m) THEN KeyOrders(DOMAIN m.val) ELSE {<< >>}

HashMapOrders(document) == MapOrders(timestamp_map(document))

\* Insert x into the sorted sequence s behind every element whose timestamp is
\* not greater (the sort is stable).
RECURSIVE insert_by_timestamp(_, _)
insert_by_timestamp(s, x) ==
    IF Len(s) = 0 THEN <<x>>
    ELSE IF s[Len(s)].timestamp <= x.timestamp THEN Append(s, x)
    ELSE Append(insert_by_timestamp(SubSeq(s, 1, Len(s) - 1), x), s[Len(s)])

RECURSIVE sort_prefix(_, _)
sort_prefix(s, n) ==
    IF n = 0 THEN << >>
    ELSE insert_by_timestamp(sort_prefix(s, n - 1), s[n])

\* The sort left out: the points stay in the order the map was iterated in.
sort_points_Unsorted(s) == s

\* result.sort_by_key(|p| p.timestamp)
sort_points(s) == sort_prefix(s, Len(s))

\* Positions counted from 0, the index of enumerate() used as it is.
reassign_positions_ZeroBased(s) ==
    [i \in 1..Len(s) |-> [s[i] EXCEPT !.position = UsizeAsU32(i - 1)]]

\* point.position = (i + 1) as u32, for the 0-based index i.
reassign_positions(s) ==
    [i \in 1..Len(s) |-> [s[i] EXCEPT !.position = UsizeAsU32((i - 1) + 1)]]

\* all_timestamped_points, the map being iterated in the order `order`.
\* The map turned into a Vec in iteration order, position 0 everywhere.
map_into_vec(map, order) ==
    [i \in 1..Len(order) |->
        [timestamp |-> order[i], position |-> U32(0), quantity |-> map[order[i]]]]

\* An empty map reported as an error instead of an empty Vec.
collect_sorted_ErrOnEmpty(m, order) ==
    IF IsErr(m) THEN m
    ELSE IF Len(order) = 0 THEN Err("InvalidResponse", << >>)
    ELSE Ok(reassign_positions(sort_points(map_into_vec(m.val, order))))

\* all_timestamped_points after its loop.
collect_sorted(m, order) ==
    IF IsErr(m) THEN m
    ELSE Ok(reassign_positions(sort_points(map_into_vec(m.val, order))))

all_timestamped_points(document, order) ==
    collect_sorted(timestamp_map(document), order)

RECURSIVE SumSeq(_)
SumSeq(s) == IF Len(s) = 0 THEN 0 ELSE Head(s) + SumSeq(Tail(s))

\* The quantities of one sub-series, summed.
series_sum(ts) == SumSeq([i \in 1..Len(ts.period.points) |-> ts.period.points[i].quantity])

total_forecast(document) ==
    SumSeq([i \in 1..Len(document.time_series) |-> series_sum(document.time_series[i])])

----------------------------------------------------------------------------
(* tokio::try_join! over the two fetches                                   *)

\* A fetch future that has not completed, and one dropped before it completed.
Pending == [tag |-> "Pending"]

Cancelled == [tag |-> "Cancelled"]

\* Both fetches awaited to the end, a failed one replaced by an empty document.
try_join_BestEffort(gen, load) ==
    IF gen.tag = "Pending" \/ load.tag = "Pending" THEN {}
    ELSE {Ok(<<IF IsOk(gen) THEN gen.val ELSE [time_series |-> << >>],
               IF IsOk(load) THEN load.val ELSE [time_series |-> << >>]>>)}

\* What a poll of try_join!(gen, load) may return: the error of a fetch that
\* has failed (of either one when both have: the poll order is tokio's), the
\* pair of documents when both have succeeded, nothing while it is pending.
try_join(gen, load) ==
    IF IsErr(gen) \/ IsErr(load)
    THEN {r \in {gen, load} : IsErr(r)}
    ELSE IF IsOk(gen) /\ IsOk(load) THEN {Ok(<<gen.val, load.val>>)}
    ELSE {}

----------------------------------------------------------------------------
(* EntsoeClient::find_max_renewable_surplus                                *)

RenewableSurplus(timestamp, generation, load) ==
    [timestamp |-> timestamp, generation |-> generation, load |-> load,
     surplus |-> generation - load]

\* load_points.into_iter().map(|p| (p.timestamp, p.quantity)).collect()
RECURSIVE max_load_map(_)
max_load_map(load_points) ==
    IF Len(load_points) = 0 THEN EmptyMap
    ELSE map_insert(max_load_map(SubSeq(load_points, 1, Len(load_points) - 1)),
                    load_points[Len(load_points)].timestamp,
                    load_points[Len(load_points)].quantity)

\* gen_points.into_iter().filter_map(...).collect()
RECURSIVE max_surpluses(_, _)
max_surpluses(gen_points, load_map) ==
    IF Len(gen_points) = 0 THEN << >>
    ELSE (IF Head(gen_points).timestamp \in DOMAIN load_map
          THEN <<RenewableSurplus(Head(gen_points).timestamp, Head(gen_points).quantity,
                                  load_map[Head(gen_points).timestamp])>>
          ELSE << >>)
         \o max_surpluses(Tail(gen_points), load_map)

\* a.surplus.partial_cmp(&b.surplus).unwrap_or(Equal)
cmp_surplus(a, b) ==
    IF a.surplus < b.surplus THEN "Less"
    ELSE IF a.surplus > b.surplus THEN "Greater"
    ELSE "Equal"

\* The comparison turned around: the fold keeps the smaller surplus.
max_by_step_Min(acc, x) == IF cmp_surplus(acc, x) = "Less" THEN acc ELSE x

\* The first of several equal maxima kept instead of the last.
max_by_step_FirstWins(acc, x) == IF cmp_surplus(acc, x) = "Less" THEN x ELSE acc

\* One step of Iterator::max_by: the accumulator is kept only when it compares
\* Greater than the next element.
max_by_step(acc, x) == IF cmp_surplus(acc, x) = "Greater" THEN acc ELSE x

RECURSIVE max_by_fold(_, _)
max_by_fold(acc, s) ==
    IF Len(s) = 0 THEN acc ELSE max_by_fold(max_by_step(acc, Head(s)), Tail(s))

\* The text of the error of an empty join.
NoMatchingText ==
    <<"N", "o", " ", "m", "a", "t", "c", "h", "i", "n", "g", " ", "d", "a", "t", "a",
      " ", "p", "o", "i", "n", "t", "s", " ", "f", "o", "u", "n", "d">>

\* The first matched point returned without comparing.
max_surplus_First(surpluses) ==
    IF Len(surpluses) = 0 THEN Err("InvalidResponse", NoMatchingText)
    ELSE Ok(Head(surpluses))

\* An empty join answered with a zero surplus at the epoch instead of an error.
max_surplus_DefaultOnEmpty(surpluses) ==
    IF Len(surpluses) = 0 THEN Ok(RenewableSurplus(0, 0, 0))
    ELSE Ok(max_by_fold(Head(surpluses), Tail(surpluses)))

\* surpluses.into_iter().max_by(...).ok_or(InvalidResponse(...))
max_surplus(surpluses) ==
    IF Len(surpluses) = 0 THEN Err("InvalidResponse", NoMatchingText)
    ELSE Ok(max_by_fold(Head(surpluses), Tail(surpluses)))

\* The function after the try_join!, given the two fetched documents.
max_of_points(gen_points, load_points) ==
    IF IsErr(gen_points) THEN gen_points
    ELSE IF IsErr(load_points) THEN load_points
    ELSE max_surplus(max_surpluses(gen_points.val, max_load_map(load_points.val)))

find_max_renewable_surplus(gen_forecast, load_forecast, gen_order, load_order) ==
    max_of_points(all_timestamped_points(gen_forecast, gen_order),
                  all_timestamped_points(load_forecast, load_order))

----------------------------------------------------------------------------
(* EntsoeClient::get_renewable_surplus_series                              *)

\* load_points.into_iter().map(|p| (p.timestamp, p.quantity)).collect()
RECURSIVE series_load_map(_)
series_load_map(load_points) ==
    IF Len(load_points) = 0 THEN EmptyMap
    ELSE map_insert(series_load_map(SubSeq(load_points, 1, Len(load_points) - 1)),
                    load_points[Len(load_points)].timestamp,
                    load_points[Len(load_points)].quantity)

\* The value a HashMap lookup gives when a missing key is read as 0.0.
lookup_load_OrZero(load_map, timestamp) ==
    IF timestamp \in DOMAIN load_map THEN Ok(load_map[timestamp]) ELSE Ok(0)

\* load_map.get(&gen_point.timestamp): Some(load) or None.
lookup_load(load_map, timestamp) ==
    IF timestamp \in DOMAIN load_map THEN Ok(load_map[timestamp]) ELSE NoResult

\* The surplus computed as load - generation.
make_surplus_Swapped(gen_point, load) ==
    [timestamp |-> gen_point.timestamp, generation |-> gen_point.quantity,
     load |-> load, surplus |-> load - gen_point.quantity]

\* The closure of the filter_map: the RenewableSurplus of a matched point.
make_surplus(gen_point, load) ==
    [timestamp |-> gen_point.timestamp, generation |-> gen_point.quantity,
     load |-> load, surplus |-> gen_point.quantity - load]

\* A matched generation point is pushed twice.
emit_Twice(x) == <<x, x>>

\* A matched generation point becomes one element of the collected Vec.
emit(x) == <<x>>

\* What the filter_map keeps of one generation point: nothing on None.
filter_map_one(gen_point, load) ==
    IF IsOk(load) THEN emit(make_surplus(gen_point, load.val)) ELSE << >>

\* gen_points.into_iter().filter_map(...).collect()
RECURSIVE series_surpluses(_, _)
series_surpluses(gen_points, load_map) ==
    IF Len(gen_points) = 0 THEN << >>
    ELSE filter_map_one(Head(gen_points), lookup_load(load_map, Head(gen_points).timestamp))
         \o series_surpluses(Tail(gen_points), load_map)

\* The sort comparing the other way: latest timestamp first.
RECURSIVE sort_surpluses_Descending(_)
sort_surpluses_Descending(s) ==
    IF Len(s) = 0 THEN << >>
    ELSE LET m == CHOOSE i \in 1..Len(s) :
                     \A j \in 1..Len(s) : s[j].timestamp <= s[i].timestamp
         IN <<s[m]>> \o sort_surpluses_Descending(
                            SubSeq(s, 1, m - 1) \o SubSeq(s, m + 1, Len(s)))

\* surpluses.sort_by_key(|s| s.timestamp)
sort_surpluses(s) == sort_prefix(s, Len(s))

\* The function after the try_join!, given the two fetched documents.
series_of_points(gen_points, load_points) ==
    IF IsErr(gen_points) THEN gen_points
    ELSE IF IsErr(load_points) THEN load_points
    ELSE Ok(sort_surpluses(series_surpluses(gen_points.val,
                                            series_load_map(load_points.val))))

get_renewable_surplus_series(gen_forecast, load_forecast, gen_order, load_order) ==
    series_of_points(all_timestamped_points(gen_forecast, gen_order),
                     all_timestamped_points(load_forecast, load_order))

----------------------------------------------------------------------------
(* RenewableSurplus::surplus_percentage                                    *)

Abs(x) == IF x < 0 THEN 0 - x ELSE x

RECURSIVE Gcd(_, _)
Gcd(a, b) == IF b = 0 THEN a ELSE Gcd(b, a % b)

\* A real number that is a quotient of integers, in lowest terms with a
\* positive denominator: the f64 results, without rounding.
Ratio(num, den) ==
    [num |-> ((IF den < 0 THEN 0 - num ELSE num) \div Gcd(Abs(num), Abs(den))),
     den |-> (Abs(den) \div Gcd(Abs(num), Abs(den)))]

\* a / b for b # 0, and r * k.
f64_div(a, b) == Ratio(a, b)

f64_mul(r, k) == Ratio(r.num * k, r.den)

\* A guard that also takes a generation below 2 MW for zero.
surplus_percentage_NearZeroGuard(s) ==
    IF Abs(s.generation) < 2 THEN Ratio(0, 1)
    ELSE f64_mul(f64_div(s.surplus, s.generation), 100)

surplus_percentage(s) ==
    IF s.generation = 0 THEN Ratio(0, 1)
    ELSE f64_mul(f64_div(s.surplus, s.generation), 100)

----------------------------------------------------------------------------
(* GlMarketDocument::min_max and min_max_with_time                         *)

\* Option: Some(v) and None.
Some(v) == [tag |-> "Some", val |-> v]

OptionNone == [tag |-> "Option::None"]

\* An f64 that is a quantity, and the two infinities the folds start from.
Finite(v) == [kind |-> "finite", val |-> v]

F64Infinity == [kind |-> "inf", val |-> 0]

F64NegInfinity == [kind |-> "-inf", val |-> 0]

f64_min(a, b) ==
    IF a.kind = "-inf" \/ b.kind = "inf" THEN a
    ELSE IF b.kind = "-inf" \/ a.kind = "inf" THEN b
    ELSE IF a.val <= b.val THEN a ELSE b

f64_max(a, b) ==
    IF a.kind = "inf" \/ b.kind = "-inf" THEN a
    ELSE IF b.kind = "inf" \/ a.kind = "-inf" THEN b
    ELSE IF a.val >= b.val THEN a ELSE b

\* time_series.iter().flat_map(|ts| ts.period.points.iter().map(|p| p.quantity))
RECURSIVE flat_quantities(_)
flat_quantities(time_series) ==
    IF Len(time_series) = 0 THEN << >>
    ELSE [i \in 1..Len(Head(time_series).period.points) |->
             Finite(Head(time_series).period.points[i].quantity)]
         \o flat_quantities(Tail(time_series))

\* values.iter().cloned().fold(acc, f64::min) and fold(acc, f64::max)
RECURSIVE fold_min(_, _)
fold_min(acc, values) ==
    IF Len(values) = 0 THEN acc ELSE fold_min(f64_min(acc, Head(values)), Tail(values))

RECURSIVE fold_max(_, _)
fold_max(acc, values) ==
    IF Len(values) = 0 THEN acc ELSE fold_max(f64_max(acc, Head(values)), Tail(values))

\* The folds started from 0.0 instead of the infinities.
min_max_of_FromZero(values) ==
    IF Len(values) = 0 THEN OptionNone
    ELSE Some(<<fold_min(Finite(0), values), fold_max(Finite(0), values)>>)

\* min_max once the quantities are collected.
min_max_of(values) ==
    IF Len(values) = 0 THEN OptionNone
    ELSE Some(<<fold_min(F64Infinity, values), fold_max(F64NegInfinity, values)>>)

min_max(document) == min_max_of(flat_quantities(document.time_series))

\* a.quantity.partial_cmp(&b.quantity).unwrap()
cmp_quantity(a, b) ==
    IF a.quantity < b.quantity THEN "Less"
    ELSE IF a.quantity > b.quantity THEN "Greater"
    ELSE "Equal"

\* The comparison turned around: the fold keeps the greater quantity.
min_by_step_Max(acc, x) == IF cmp_quantity(acc, x) = "Less" THEN x ELSE acc

\* One step of Iterator::min_by: the next element replaces the accumulator
\* only when the accumulator compares Greater.
min_by_step(acc, x) == IF cmp_quantity(acc, x) = "Greater" THEN x ELSE acc

\* One step of Iterator::max_by: the accumulator is kept only when it compares
\* Greater than the next element.
max_by_quantity_step(acc, x) == IF cmp_quantity(acc, x) = "Greater" THEN acc ELSE x

RECURSIVE min_by_fold(_, _)
min_by_fold(acc, s) ==
    IF Len(s) = 0 THEN acc ELSE min_by_fold(min_by_step(acc, Head(s)), Tail(s))

RECURSIVE max_by_quantity_fold(_, _)
max_by_quantity_fold(acc, s) ==
    IF Len(s) = 0 THEN acc
    ELSE max_by_quantity_fold(max_by_quantity_step(acc, Head(s)), Tail(s))

\* min_max_with_time after all_timestamped_points: the `?`, the empty case
\* and the two scans.
min_max_of_points(points) ==
    IF IsErr(points) THEN points
    ELSE IF Len(points.val) = 0 THEN Ok(OptionNone)
    ELSE Ok(Some(<<min_by_fold(Head(points.val), Tail(points.val)),
                   max_by_quantity_fold(Head(points.val), Tail(points.val))>>))

min_max_with_time(document, order) ==
    min_max_of_points(all_timestamped_points(document, order))

----------------------------------------------------------------------------
(* server.rs: filter_night_hours and filter_next_hours                     *)

\* A call that returned v, and a call that panicked.
Returned(v) == [tag |-> "Returned", val |-> v]

Panicked == [tag |-> "Panic"]

\* Timelike::hour of a DateTime<Utc>.
hour(timestamp) == (timestamp \div 3600) % 24

\* The night taken to start after the hour 22 has passed.
is_night_After22(s) == hour(s.timestamp) > 22 \/ hour(s.timestamp) < 6

\* The closure of filter_night_hours.
is_night(s) == hour(s.timestamp) >= 22 \/ hour(s.timestamp) < 6

filter_night_hours(series) == SelectSeq(series, is_night)

\* `hours` whole days and hours, for a u32 `hours` (2^31 = 24 * 89478485 + 8).
HoursDiv24(hours) ==
    IF hours.top = 0 THEN hours.low \div 24
    ELSE 89478485 + (hours.low \div 24) + (((hours.low % 24) + 8) \div 24)

HoursMod24(hours) ==
    IF hours.top = 0 THEN hours.low % 24 ELSE ((hours.low % 24) + 8) % 24

\* The last day a DateTime<Utc> can hold, in days since the epoch: chrono
\* ends the calendar with the year 262143 at the latest.
MaxUtcDay == DaysFromCivil(262143, 12, 31)

\* The day, in days since the epoch, of now + hours.
EndDay(now, hours) ==
    (now \div 86400) + HoursDiv24(hours)
        + (((now % 86400) + 3600 * HoursMod24(hours)) \div 86400)

\* now + Duration::hours(hours as i64): DateTime's Add panics when the sum
\* is past the last instant a DateTime can hold. The sum is kept as the pair
\* of its terms.
add_hours(now, hours) ==
    IF EndDay(now, hours) > MaxUtcDay THEN Panicked
    ELSE Returned([now |-> now, hours |-> hours])

\* timestamp <= end_time, for end_time = now + hours: the whole hours from
\* now up to timestamp, rounded up, are at most `hours`.
not_after(timestamp, end_time) ==
    IF timestamp <= end_time.now THEN TRUE
    ELSE IF end_time.hours.top = 1 THEN TRUE
    ELSE ((timestamp - end_time.now + 3599) \div 3600) <= end_time.hours.low

\* The filter of filter_next_hours, once end_time is computed.
filter_window(series, now, end_time) ==
    IF end_time = Panicked THEN Panicked
    ELSE Returned(SelectSeq(series, LAMBDA s : /\ s.timestamp >= now
                                               /\ not_after(s.timestamp, end_time.val)))

\* filter_next_hours, `now` being what Utc::now() returns at its first line.
filter_next_hours(series, hours, now) ==
    filter_window(series, now, add_hours(now, hours))

\* find_max: the max_by of find_max_renewable_surplus, without the ok_or.
find_max(series) ==
    IF Len(series) = 0 THEN OptionNone
    ELSE Some(max_by_fold(Head(series), Tail(series)))

----------------------------------------------------------------------------
(* Inputs                                                                  *)

SeqsUpTo(S, n) == UNION {[1..k -> S] : k \in 0..n}

T0000 == <<"2", "0", "2", "3", "-", "0", "8", "-", "1", "4", "T", "0", "0", ":", "0", "0", "Z">>

T0100 == <<"2", "0", "2", "3", "-", "0", "8", "-", "1", "4", "T", "0", "1", ":", "0", "0", "Z">>

T2200 == <<"2", "0", "2", "3", "-", "0", "8", "-", "1", "4", "T", "2", "2", ":", "0", "0", "Z">>

\* A date without a time: not a timestamp parse_timestamp accepts.
TBad == <<"2", "0", "2", "3", "-", "0", "8", "-", "1", "4">>

PT15M == <<"P", "T", "1", "5", "M">>

PT30M == <<"P", "T", "3", "0", "M">>

PT60M == <<"P", "T", "6", "0", "M">>

\* An hour granularity: not a resolution parse_resolution accepts.
PT1H == <<"P", "T", "1", "H">>

Point(position, quantity) == [position |-> U32(position), quantity |-> quantity]

\* Longest point list of the Period given to timestamped_points.
MaxPeriodPoints == 2

\* Wire positions: the first positions of a period and the largest u32.
WirePositions == {U32(1), U32(2), U32(3), U32Max}

PeriodQuantities == {5, 10}

PeriodInputs ==
    [start      : {T0000, T2200, TBad},
     resolution : {PT15M, PT60M, PT1H},
     points     : SeqsUpTo([position : WirePositions, quantity : PeriodQuantities],
                           MaxPeriodPoints)]

\* Most sub-series of a document given to all_timestamped_points.
MaxSeries == 2

\* Point lists of a sub-series: empty, one point, two points in wire order,
\* two points out of order, the same position twice.
AggPointLists ==
    {<< >>,
     <<Point(1, 10)>>,
     <<Point(1, 10), Point(2, 5)>>,
     <<Point(2, 5), Point(1, 10)>>,
     <<Point(1, 5), Point(1, 10)>>}

AggPeriods ==
    [start : {T0000, T0100}, resolution : {PT30M, PT60M}, points : AggPointLists]
      \cup {[start |-> TBad, resolution |-> PT60M, points |-> <<Point(1, 10)>>],
            [start |-> T0000, resolution |-> PT1H, points |-> <<Point(1, 10)>>],
            [start |-> TBad, resolution |-> PT60M, points |-> << >>],
            [start |-> T0000, resolution |-> PT1H, points |-> << >>]}

DocumentInputs ==
    [time_series : SeqsUpTo([period : AggPeriods], MaxSeries)]

\* Most sub-series of a document a fetch returns.
MaxJoinSeries == 1

JoinPeriod(points) == [start |-> T0000, resolution |-> PT60M, points |-> points]

\* Sub-series of a generation forecast: hourly from 00:00, in and out of wire
\* order, and one with a resolution that does not parse.
GenPeriods ==
    {JoinPeriod(<< >>),
     JoinPeriod(<<Point(1, 100)>>),
     JoinPeriod(<<Point(1, 100), Point(2, 150)>>),
     JoinPeriod(<<Point(2, 150), Point(3, 100)>>),
     JoinPeriod(<<Point(3, 100), Point(1, 150)>>),
     JoinPeriod(<<Point(1, 100), Point(2, 150), Point(3, 100)>>),
     [start |-> T0000, resolution |-> PT1H, points |-> <<Point(1, 100)>>]}

\* Sub-series of a load forecast: hourly from 00:00, half-hourly from 01:00,
\* and one with a start that does not parse.
LoadPeriods ==
    {JoinPeriod(<< >>),
     JoinPeriod(<<Point(1, 80)>>),
     JoinPeriod(<<Point(1, 80), Point(2, 200)>>),
     JoinPeriod(<<Point(1, 80), Point(2, 130)>>),
     JoinPeriod(<<Point(1, 95), Point(2, 130)>>),
     JoinPeriod(<<Point(3, 130), Point(1, 80)>>),
     JoinPeriod(<<Point(4, 200)>>),
     [start |-> T0100, resolution |-> PT30M, points |-> <<Point(1, 200), Point(3, 80)>>],
     [start |-> TBad, resolution |-> PT60M, points |-> <<Point(1, 80)>>]}

T0030 == <<"2", "0", "2", "3", "-", "0", "8", "-", "1", "4", "T", "0", "0", ":", "3", "0", "Z">>

T0130 == <<"2", "0", "2", "3", "-", "0", "8", "-", "1", "4", "T", "0", "1", ":", "3", "0", "Z">>

T0200 == <<"2", "0", "2", "3", "-", "0", "8", "-", "1", "4", "T", "0", "2", ":", "0", "0", "Z">>

PT90M == <<"P", "T", "9", "0", "M">>

PT120M == <<"P", "T", "1", "2", "0", "M">>

\* The starts and resolutions a sub-series made of an aggregated series can
\* be given: every instant and every gap the aggregated series of
\* DocumentInputs can hold.
FeedbackStarts == {T0000, T0030, T0100, T0130, T0200}

FeedbackResolutions == {PT30M, PT60M, PT90M, PT120M}

\* A sub-series whose resolution does not parse.
BadResolutionPeriod == [start |-> T0000, resolution |-> PT1H, points |-> <<Point(1, 100)>>]

\* A sub-series whose start does not parse.
BadStartPeriod == [start |-> TBad, resolution |-> PT60M, points |-> <<Point(1, 80)>>]

Document(periods) == [time_series |-> [k \in 1..Len(periods) |-> [period |-> periods[k]]]]

\* Generation forecasts with one malformed sub-series next to a well-formed
\* one, in both orders.
MixedGenDocuments ==
    {Document(<<JoinPeriod(<<Point(1, 100), Point(2, 150)>>), BadResolutionPeriod>>),
     Document(<<BadResolutionPeriod, JoinPeriod(<<Point(1, 100), Point(2, 150)>>)>>)}

\* Load forecasts with one malformed sub-series next to a well-formed one,
\* in both orders, and one with two sub-series malformed in different ways.
MixedLoadDocuments ==
    {Document(<<JoinPeriod(<<Point(1, 80), Point(2, 200)>>), BadStartPeriod>>),
     Document(<<BadStartPeriod, JoinPeriod(<<Point(1, 80), Point(2, 200)>>)>>),
     Document(<<BadResolutionPeriod, BadStartPeriod>>)}

GenDocuments ==
    [time_series : SeqsUpTo([period : GenPeriods], MaxJoinSeries)] \cup MixedGenDocuments

LoadDocuments ==
    [time_series : SeqsUpTo([period : LoadPeriods], MaxJoinSeries)] \cup MixedLoadDocuments

\* The errors of fetch_and_parse: a failed request, an error payload.
FetchErrors ==
    {Err("Request", <<"t", "i", "m", "e", "o", "u", "t">>),
     Err("InvalidResponse", <<"<", "R", "e", "a", "s", "o", "n", ">">>)}

\* Longest freely built string given to parse_resolution.
MaxResolutionLen == 4

ResolutionAlphabet == {"P", "T", "M", "H", "1", "5", "-", "+"}

PT15M_Negative == <<"P", "T", "-", "1", "5", "M">>

PT15M_Plus == <<"P", "T", "+", "1", "5", "M">>

P1D == <<"P", "1", "D">>

\* The strings given to parse_resolution: every string over the alphabet up
\* to MaxResolutionLen, the resolutions of the unit test, hour and day
\* granularities and signed minutes.
ResolutionInputs ==
    SeqsUpTo(ResolutionAlphabet, MaxResolutionLen)
      \cup {PT15M, PT30M, PT60M, PT90M, PT120M, PT1H, P1D, PT15M_Negative, PT15M_Plus}

\* Date parts: a summer day, a leap day, a day that does not exist.
DatePrefixes ==
    {<<"2", "0", "2", "3", "-", "0", "8", "-", "1", "4", "T">>,
     <<"2", "0", "2", "4", "-", "0", "2", "-", "2", "9", "T">>,
     <<"2", "0", "2", "3", "-", "0", "2", "-", "2", "9", "T">>}

\* What follows the minutes: the UTC marker alone (seconds omitted), nothing,
\* a lowercase marker, seconds with and without the marker, two markers.
TimestampTails ==
    {<<"Z">>, << >>, <<"z">>, <<":", "0", "0", "Z">>, <<":", "3", "0", "Z">>,
     <<":", "0", "0">>, <<"Z", "Z">>}

\* The strings given to parse_timestamp: date, hour 00..25, a separator,
\* minute 00..69 and a tail; a bare date; the empty string.
TimestampInputs ==
    {date \o <<h1, h2, sep, m1, m2>> \o tail :
        date \in DatePrefixes, h1 \in {"0", "2"}, h2 \in {"0", "3", "5"},
        sep \in {":", "."}, m1 \in {"0", "5", "6"}, m2 \in {"0", "9"},
        tail \in TimestampTails}
      \cup {TBad, << >>}

\* Longest series given to a filter.
MaxFilterLen == 4

\* An instant of 2023-08-14.
At(h, m) == 1691971200 + 3600 * h + 60 * m

\* The instants of the points given to the filters: both sides of both ends
\* of the night, and noon.
FilterInstants == {At(5, 59), At(6, 0), At(12, 0), At(21, 59), At(22, 0)}

\* The series given to the filters, in any order and with repeats.
FilterSeriesInputs ==
    SeqsUpTo({RenewableSurplus(t, 100, 80) : t \in FilterInstants}, MaxFilterLen)

\* The `hours` arguments of filter_next_hours: none, one, sixteen, the
\* default of the query, and the largest u32.
FilterHoursInputs == {U32(0), U32(1), U32(16), U32(24), U32Max}

\* What Utc::now() can return when filter_next_hours is called.
NowInputs == {At(5, 59), At(6, 0), At(12, 0)}

\* Generation and load of the RenewableSurplus given to surplus_percentage:
\* zero, the smallest amounts, the amounts of the scenario, a negative one.
GenerationInputs == {0, 1, 2, 3, 50, 100, 150, 200, 0 - 100}

LoadInputs == {0, 1, 50, 80, 100, 200, 300}

SurplusInputs ==
    {RenewableSurplus(t, generation, load) :
        t \in {At(0, 0), At(1, 0)}, generation \in GenerationInputs, load \in LoadInputs}

\* A Period and a document that are never used.
NoPeriod == [start |-> << >>, resolution |-> << >>, points |-> << >>]

NoDocument == [time_series |-> << >>]

----------------------------------------------------------------------------
(* State                                                                   *)

VARIABLES
    period,     \* the Period timestamped_points is called on
    periodOut,  \* what that call returned
    doc,        \* the document all_timestamped_points is called on
    aggOut,     \* what that call returned
    pc,         \* where the surplus request is: "idle", "joining", "done"
    op,         \* the function called: "max" or "series"
    genFut,     \* the generation fetch: Pending, Ok(document), Err, Cancelled
    loadFut,    \* the load fetch: Pending, Ok(document), Err, Cancelled
    progress,   \* the last stage the call entered: "fetch", "aggregate", "join"
    result,     \* what the call returned
    handlerOut, \* what find_max gave the handler that asked for the series
    fbDoc,      \* the aggregated series fed back as a one-sub-series document
    againOut,   \* what all_timestamped_points returned for fbDoc
    parseFn,    \* the parser called: "resolution" or "timestamp"
    parseIn,    \* the string given to it
    parseOut,   \* what it returned
    filterFn,   \* the filter called: "night" or "next"
    filterSeries, \* the series given to it
    filterHours,  \* the hours argument of filter_next_hours
    filterNow,    \* the clock reading filter_next_hours took
    filterOut,  \* what the filter returned
    surplusIn,  \* the RenewableSurplus surplus_percentage is called on
    percentOut, \* what it returned
    statsFn,    \* the statistic called: "min_max" or "min_max_with_time"
    statsOut    \* what it returned

callVars == <<period, periodOut, doc, aggOut>>

joinVars == <<pc, op, genFut, loadFut, progress, result, handlerOut>>

feedbackVars == <<fbDoc, againOut>>

parseVars == <<parseFn, parseIn, parseOut>>

filterVars == <<filterFn, filterSeries, filterHours, filterNow, filterOut>>

percentVars == <<surplusIn, percentOut>>

statsVars == <<statsFn, statsOut>>

vars == <<callVars, joinVars, feedbackVars, parseVars, filterVars, percentVars, statsVars>>

\* No surplus request is made.
\* No aggregated series is fed back.
FeedbackIdle ==
    /\ fbDoc = NoDocument
    /\ againOut = NoResult

\* No parser is called.
ParseIdle ==
    /\ parseFn = "none"
    /\ parseIn = << >>
    /\ parseOut = NoResult

\* No filter is called.
FilterIdle ==
    /\ filterFn = "none"
    /\ filterSeries = << >>
    /\ filterHours = 0
    /\ filterNow = 0
    /\ filterOut = NoResult

\* No statistic is called.
StatsIdle ==
    /\ statsFn = "none"
    /\ statsOut = NoResult

\* surplus_percentage is not called.
PercentIdle ==
    /\ surplusIn = NoResult
    /\ percentOut = NoResult

JoinIdle ==
    /\ pc = "idle"
    /\ op = "none"
    /\ genFut = NoResult
    /\ loadFut = NoResult
    /\ progress = "none"
    /\ result = NoResult
    /\ handlerOut = NoResult

----------------------------------------------------------------------------
(* SpecPeriod: one call of Period::timestamped_points                       *)

InitPeriod ==
    /\ period \in PeriodInputs
    /\ periodOut = NoResult
    /\ doc = NoDocument
    /\ aggOut = NoResult
    /\ JoinIdle
    /\ FeedbackIdle
    /\ ParseIdle
    /\ FilterIdle
    /\ PercentIdle
    /\ StatsIdle

CallTimestampedPoints ==
    /\ periodOut = NoResult
    /\ periodOut' = timestamped_points(period)
    /\ UNCHANGED <<period, doc, aggOut, joinVars, feedbackVars, parseVars, filterVars, percentVars, statsVars>>

NextPeriod == CallTimestampedPoints

SpecPeriod == InitPeriod /\ [][NextPeriod]_vars

----------------------------------------------------------------------------
(* SpecAgg: one call of GlMarketDocument::all_timestamped_points            *)

InitAgg ==
    /\ period = NoPeriod
    /\ periodOut = NoResult
    /\ doc \in DocumentInputs
    /\ aggOut = NoResult
    /\ JoinIdle
    /\ FeedbackIdle
    /\ ParseIdle
    /\ FilterIdle
    /\ PercentIdle
    /\ StatsIdle

CallAllTimestampedPoints ==
    /\ aggOut = NoResult
    /\ \E order \in HashMapOrders(doc) :
           aggOut' = all_timestamped_points(doc, order)
    /\ UNCHANGED <<period, periodOut, doc, joinVars, feedbackVars, parseVars, filterVars, percentVars, statsVars>>

\* The raw points an aggregated series gives when it is fed back: position and
\* quantity of each TimestampedPoint, in order.
FeedbackPoints(points) ==
    [i \in 1..Len(points) |-> [position |-> points[i].position,
                               quantity |-> points[i].quantity]]

\* The start of the fed-back sub-series is the first timestamp of the
\* aggregated series.
FitsStart(start, points) ==
    IF Len(points) = 0 THEN TRUE
    ELSE parse_timestamp(start) = Ok(points[1].timestamp)

\* Its resolution is the gap between the first two timestamps.
FitsResolution(resolution, points) ==
    IF Len(points) < 2 THEN TRUE
    ELSE parse_resolution(resolution) = Ok(points[2].timestamp - points[1].timestamp)

ReaggregateDocument(d) ==
    /\ fbDoc' = d
    /\ \E order \in HashMapOrders(d) : againOut' = all_timestamped_points(d, order)

\* The aggregated series is fed back as the only sub-series of a document and
\* all_timestamped_points is called on it.
Reaggregate ==
    /\ IsOk(aggOut)
    /\ againOut = NoResult
    /\ \E start \in FeedbackStarts, resolution \in FeedbackResolutions :
          /\ FitsStart(start, aggOut.val)
          /\ FitsResolution(resolution, aggOut.val)
          /\ ReaggregateDocument(Document(<<[start      |-> start,
                                             resolution |-> resolution,
                                             points     |-> FeedbackPoints(aggOut.val)]>>))
    /\ UNCHANGED <<callVars, joinVars, parseVars, filterVars, percentVars, statsVars>>

NextAgg == CallAllTimestampedPoints \/ Reaggregate

SpecAgg == InitAgg /\ [][NextAgg]_vars

----------------------------------------------------------------------------
(* SpecParse: one call of parse_resolution or of parse_timestamp           *)

InitParse ==
    /\ period = NoPeriod
    /\ periodOut = NoResult
    /\ doc = NoDocument
    /\ aggOut = NoResult
    /\ JoinIdle
    /\ FeedbackIdle
    /\ FilterIdle
    /\ PercentIdle
    /\ StatsIdle
    /\ \/ parseFn = "resolution" /\ parseIn \in ResolutionInputs
       \/ parseFn = "timestamp" /\ parseIn \in TimestampInputs
    /\ parseOut = NoResult

CallParseResolution ==
    /\ parseFn = "resolution"
    /\ parseOut = NoResult
    /\ parseOut' = parse_resolution(parseIn)
    /\ UNCHANGED <<parseFn, parseIn, callVars, joinVars, feedbackVars, filterVars, percentVars, statsVars>>

CallParseTimestamp ==
    /\ parseFn = "timestamp"
    /\ parseOut = NoResult
    /\ parseOut' = parse_timestamp(parseIn)
    /\ UNCHANGED <<parseFn, parseIn, callVars, joinVars, feedbackVars, filterVars, percentVars, statsVars>>

NextParse == CallParseResolution \/ CallParseTimestamp

SpecParse == InitParse /\ [][NextParse]_vars

----------------------------------------------------------------------------
(* SpecFilter: one call of filter_night_hours or of filter_next_hours      *)

InitFilter ==
    /\ period = NoPeriod
    /\ periodOut = NoResult
    /\ doc = NoDocument
    /\ aggOut = NoResult
    /\ JoinIdle
    /\ FeedbackIdle
    /\ ParseIdle
    /\ PercentIdle
    /\ StatsIdle
    /\ filterSeries \in FilterSeriesInputs
    /\ \/ filterFn = "night" /\ filterHours = U32(0)
       \/ filterFn = "next" /\ filterHours \in FilterHoursInputs
    /\ filterNow = 0
    /\ filterOut = NoResult

CallFilterNightHours ==
    /\ filterFn = "night"
    /\ filterOut = NoResult
    /\ filterOut' = Returned(filter_night_hours(filterSeries))
    /\ UNCHANGED <<filterFn, filterSeries, filterHours, filterNow,
                   callVars, joinVars, feedbackVars, parseVars, percentVars, statsVars>>

\* filter_next_hours reads the clock once, at its first line.
CallFilterNextHours ==
    /\ filterFn = "next"
    /\ filterOut = NoResult
    /\ \E now \in NowInputs :
          /\ filterNow' = now
          /\ filterOut' = filter_next_hours(filterSeries, filterHours, now)
    /\ UNCHANGED <<filterFn, filterSeries, filterHours,
                   callVars, joinVars, feedbackVars, parseVars, percentVars, statsVars>>

NextFilter == CallFilterNightHours \/ CallFilterNextHours

SpecFilter == InitFilter /\ [][NextFilter]_vars

----------------------------------------------------------------------------
(* SpecPercent: one call of RenewableSurplus::surplus_percentage           *)

InitPercent ==
    /\ period = NoPeriod
    /\ periodOut = NoResult
    /\ doc = NoDocument
    /\ aggOut = NoResult
    /\ JoinIdle
    /\ FeedbackIdle
    /\ ParseIdle
    /\ FilterIdle
    /\ StatsIdle
    /\ surplusIn \in SurplusInputs
    /\ percentOut = NoResult

CallSurplusPercentage ==
    /\ percentOut = NoResult
    /\ percentOut' = surplus_percentage(surplusIn)
    /\ UNCHANGED <<surplusIn, callVars, joinVars, feedbackVars, parseVars, filterVars, statsVars>>

NextPercent == CallSurplusPercentage

SpecPercent == InitPercent /\ [][NextPercent]_vars

----------------------------------------------------------------------------
(* SpecStats: one call of min_max or of min_max_with_time                  *)

InitStats ==
    /\ period = NoPeriod
    /\ periodOut = NoResult
    /\ doc \in DocumentInputs
    /\ aggOut = NoResult
    /\ JoinIdle
    /\ FeedbackIdle
    /\ ParseIdle
    /\ FilterIdle
    /\ PercentIdle
    /\ statsFn \in {"min_max", "min_max_with_time"}
    /\ statsOut = NoResult

CallMinMax ==
    /\ statsFn = "min_max"
    /\ statsOut = NoResult
    /\ statsOut' = min_max(doc)
    /\ UNCHANGED <<statsFn, callVars, joinVars, feedbackVars, parseVars, filterVars, percentVars>>

CallMinMaxWithTime ==
    /\ statsFn = "min_max_with_time"
    /\ statsOut = NoResult
    /\ \E order \in HashMapOrders(doc) :
          statsOut' = min_max_with_time(doc, order)
    /\ UNCHANGED <<statsFn, callVars, joinVars, feedbackVars, parseVars, filterVars, percentVars>>

NextStats == CallMinMax \/ CallMinMaxWithTime

SpecStats == InitStats /\ [][NextStats]_vars

----------------------------------------------------------------------------
(* Spec: one surplus request, its two fetches running concurrently         *)

Init ==
    /\ period = NoPeriod
    /\ periodOut = NoResult
    /\ doc = NoDocument
    /\ aggOut = NoResult
    /\ JoinIdle
    /\ FeedbackIdle
    /\ ParseIdle
    /\ FilterIdle
    /\ PercentIdle
    /\ StatsIdle

\* find_max_renewable_surplus or get_renewable_surplus_series is called and
\* reaches its try_join!: both fetches are in flight.
StartRequest ==
    /\ pc = "idle"
    /\ \E o \in {"max", "series"} : op' = o
    /\ pc' = "joining"
    /\ genFut' = Pending
    /\ loadFut' = Pending
    /\ progress' = "fetch"
    /\ UNCHANGED <<result, handlerOut, callVars, feedbackVars, parseVars, filterVars, percentVars, statsVars>>

\* fetch_day_ahead_generation_forecast completes.
GenFetchCompletes ==
    /\ pc = "joining"
    /\ genFut = Pending
    /\ \E r \in {Ok(d) : d \in GenDocuments} \cup FetchErrors : genFut' = r
    /\ UNCHANGED <<pc, op, loadFut, progress, result, handlerOut, callVars, feedbackVars, parseVars, filterVars, percentVars, statsVars>>

\* fetch_day_ahead_total_load_forecast completes.
LoadFetchCompletes ==
    /\ pc = "joining"
    /\ loadFut = Pending
    /\ \E r \in {Ok(d) : d \in LoadDocuments} \cup FetchErrors : loadFut' = r
    /\ UNCHANGED <<pc, op, genFut, progress, result, handlerOut, callVars, feedbackVars, parseVars, filterVars, percentVars, statsVars>>

\* A future that is dropped before it completed.
Drop(fut) == IF fut = Pending THEN Cancelled ELSE fut

\* try_join! returns an error and the `?` returns it from the function.
JoinFails ==
    /\ pc = "joining"
    /\ \E r \in try_join(genFut, loadFut) :
          /\ IsErr(r)
          /\ result' = r
    /\ genFut' = Drop(genFut)
    /\ loadFut' = Drop(loadFut)
    /\ pc' = "done"
    /\ UNCHANGED <<op, progress, handlerOut, callVars, feedbackVars, parseVars, filterVars, percentVars, statsVars>>

\* The stage the code after the try_join! ends in.
StageReached(gen_forecast, load_forecast) ==
    IF IsErr(timestamp_map(gen_forecast)) \/ IsErr(timestamp_map(load_forecast))
    THEN "aggregate"
    ELSE "join"

\* try_join! returns both documents and the rest of the function runs.
JoinSucceeds ==
    /\ pc = "joining"
    /\ \E r \in try_join(genFut, loadFut) :
          /\ IsOk(r)
          /\ \E gen_order \in HashMapOrders(r.val[1]), load_order \in HashMapOrders(r.val[2]) :
                result' = IF op = "max"
                          THEN find_max_renewable_surplus(r.val[1], r.val[2],
                                                          gen_order, load_order)
                          ELSE get_renewable_surplus_series(r.val[1], r.val[2],
                                                            gen_order, load_order)
          /\ progress' = StageReached(r.val[1], r.val[2])
    /\ pc' = "done"
    /\ UNCHANGED <<op, genFut, loadFut, handlerOut, callVars, feedbackVars, parseVars, filterVars, percentVars, statsVars>>

\* The text of StatusCode::INTERNAL_SERVER_ERROR.
InternalServerError == <<"5", "0", "0">>

\* get_night_surplus after its call of get_renewable_surplus_series: an error
\* becomes a status code, a series is filtered to the night hours and
\* find_max picks its maximum.
NightSurplus ==
    /\ pc = "done"
    /\ op = "series"
    /\ handlerOut = NoResult
    /\ handlerOut' = IF IsErr(result) THEN Err("StatusCode", InternalServerError)
                     ELSE Ok(find_max(filter_night_hours(result.val)))
    /\ UNCHANGED <<pc, op, genFut, loadFut, progress, result,
                   callVars, feedbackVars, parseVars, filterVars, percentVars, statsVars>>

Next ==
    \/ StartRequest
    \/ GenFetchCompletes
    \/ LoadFetchCompletes
    \/ JoinFails
    \/ JoinSucceeds
    \/ NightSurplus

Spec == Init /\ [][Next]_vars

----------------------------------------------------------------------------
(* Claims about Period::timestamped_points                                 *)

\* ts = start + step * (position - 1) over the integers, for a u32 position
\* (position - 1 may be as large as 2^32 - 2).
IsStartPlusSteps(ts, start, step, position) ==
    IF position.top = 0
    THEN ts = start + step * (position.low - 1)
    ELSE IF step = 0 THEN ts = start
    ELSE LET q == (ts - start) \div step
         IN /\ (ts - start) % step = 0
            /\ q >= 0
            /\ q - position.low = I32Max

\* C2: for a Period with a valid start and a valid resolution, every point of
\* timestamped_points has the timestamp start + resolution * (position - 1),
\* computed without clamping or wraparound over the whole u32 range.
C2_TimestampIsStartPlusOffset ==
    IsOk(periodOut) =>
        \A i \in 1..Len(periodOut.val) :
            IsStartPlusSteps(periodOut.val[i].timestamp,
                             parse_timestamp(period.start).val,
                             parse_resolution(period.resolution).val,
                             period.points[i].position)

----------------------------------------------------------------------------
(* Claims about GlMarketDocument::all_timestamped_points                   *)

Quantities(s) == [i \in 1..Len(s) |-> s[i].quantity]

\* Every raw point of the document with the timestamp it reconstructs to, as
\* a set of <<sub-series, index, timestamp, quantity>>.
RawPoints(d) ==
    UNION {{<<k, i, timestamped_points(d.time_series[k].period).val[i].timestamp,
              d.time_series[k].period.points[i].quantity>> :
                i \in 1..Len(d.time_series[k].period.points)} :
           k \in 1..Len(d.time_series)}

RawTimestamps(d) == {r[3] : r \in RawPoints(d)}

RECURSIVE SumRaw(_)
SumRaw(R) ==
    IF R = {} THEN 0
    ELSE LET r == CHOOSE x \in R : TRUE IN r[4] + SumRaw(R \ {r})

\* C3: the quantities of the aggregated series add up to the quantities of all
\* raw points of all sub-series, which is what total_forecast returns.
C3_MassConserved ==
    IsOk(aggOut) =>
        /\ SumSeq(Quantities(aggOut.val)) = SumRaw(RawPoints(doc))
        /\ SumSeq(Quantities(aggOut.val)) = total_forecast(doc)

\* Two sub-series hold points, so that quantities are merged across sub-series.
C3_Witness ==
    /\ IsOk(aggOut)
    /\ Len(doc.time_series) >= 2
    /\ \A k \in 1..2 : Len(doc.time_series[k].period.points) >= 1
    /\ Len(aggOut.val) < Cardinality(RawPoints(doc))

\* C4: raw points that reconstruct to the same timestamp give exactly one
\* output point, whose quantity is the sum of their quantities.
C4_CollisionsSummed ==
    IsOk(aggOut) =>
        \A t \in RawTimestamps(doc) :
            \E i \in 1..Len(aggOut.val) :
                /\ aggOut.val[i].timestamp = t
                /\ aggOut.val[i].quantity = SumRaw({r \in RawPoints(doc) : r[3] = t})
                /\ \A j \in 1..Len(aggOut.val) : aggOut.val[j].timestamp = t => j = i

\* Points of two sub-series with different starts and resolutions meet at one
\* timestamp: 10 and 5 give one point of 15.
C4_Witness ==
    /\ IsOk(aggOut)
    /\ \E r1, r2 \in RawPoints(doc) :
          /\ r1[1] # r2[1] /\ r1[3] = r2[3]
          /\ doc.time_series[r1[1]].period.start # doc.time_series[r2[1]].period.start
          /\ doc.time_series[r1[1]].period.resolution
                # doc.time_series[r2[1]].period.resolution
          /\ r1[4] = 5 /\ r2[4] = 10
          /\ \E i \in 1..Len(aggOut.val) :
                 aggOut.val[i].timestamp = r1[3] /\ aggOut.val[i].quantity = 15

\* C5: the output is in ascending order of timestamp and its positions are
\* 1, 2, ..., n in that order.
C5_SortedAndDense ==
    IsOk(aggOut) =>
        /\ \A i \in 1..Len(aggOut.val) - 1 :
               aggOut.val[i].timestamp < aggOut.val[i + 1].timestamp
        /\ \A i \in 1..Len(aggOut.val) : aggOut.val[i].position = U32(i)

\* Three or more timestamps come from sub-series that are not in time order and
\* whose wire positions are not 1..n.
C5_Witness ==
    /\ IsOk(aggOut)
    /\ Len(aggOut.val) >= 3
    /\ Len(doc.time_series) = 2
    /\ parse_timestamp(doc.time_series[1].period.start).val
          > parse_timestamp(doc.time_series[2].period.start).val
    /\ \E k \in 1..2 : Len(doc.time_series[k].period.points) = 2
          /\ doc.time_series[k].period.points[1].position = U32(2)

----------------------------------------------------------------------------
(* Claims about the surplus join                                           *)

\* C1: the two fetches run concurrently and are awaited jointly.  Whenever a
\* call has returned and one of its fetches had failed, the call returned the
\* error of a failed fetch and never entered aggregation or the join; a call
\* that got further, or returned a value, had both fetches succeed.
C1_FetchFailureFailsCall ==
    pc = "done" =>
        /\ (IsErr(genFut) \/ IsErr(loadFut)) =>
              /\ IsErr(result)
              /\ \/ IsErr(genFut) /\ result = genFut
                 \/ IsErr(loadFut) /\ result = loadFut
              /\ progress = "fetch"
        /\ (IsOk(result) \/ progress # "fetch") => IsOk(genFut) /\ IsOk(loadFut)

\* The generation fetch succeeded, with points, the load fetch failed after
\* it, and the call returned the load error.
C1_Witness ==
    /\ pc = "done"
    /\ IsOk(genFut)
    /\ Len(genFut.val.time_series) >= 1
    /\ IsErr(loadFut)
    /\ result = loadFut
    /\ progress = "fetch"

\* Every sub-series of the document has a start and a resolution that parse.
WellFormed(d) ==
    \A k \in 1..Len(d.time_series) : IsOk(timestamped_points(d.time_series[k].period))

\* The quantity of the aggregated series of d at timestamp t.
AggQuantity(d, t) == SumRaw({r \in RawPoints(d) : r[3] = t})

\* The timestamps present in both aggregated series.
Matched == RawTimestamps(genFut.val) \cap RawTimestamps(loadFut.val)

SeriesReturned == pc = "done" /\ op = "series" /\ IsOk(result)

\* C6: every point get_renewable_surplus_series returns has a timestamp that
\* is in the aggregated generation series and in the aggregated load series.
C6_InnerJoin ==
    SeriesReturned =>
        \A i \in 1..Len(result.val) :
            /\ result.val[i].timestamp \in RawTimestamps(genFut.val)
            /\ result.val[i].timestamp \in RawTimestamps(loadFut.val)

\* Each input has a timestamp the other lacks, and some timestamp is matched.
C6_Witness ==
    /\ SeriesReturned
    /\ RawTimestamps(genFut.val) \ RawTimestamps(loadFut.val) # {}
    /\ RawTimestamps(loadFut.val) \ RawTimestamps(genFut.val) # {}
    /\ Len(result.val) >= 1

\* C7: the timestamps of the output are exactly those in both inputs, each of
\* them once.
C7_ExactlyTheIntersection ==
    SeriesReturned =>
        /\ {result.val[i].timestamp : i \in 1..Len(result.val)} = Matched
        /\ Len(result.val) = Cardinality(Matched)
        /\ \A i, j \in 1..Len(result.val) :
               result.val[i].timestamp = result.val[j].timestamp => i = j

\* Two timestamps are matched and one generation timestamp is dropped.
C7_Witness ==
    /\ SeriesReturned
    /\ Len(result.val) = 2
    /\ Cardinality(RawTimestamps(genFut.val)) = 3

\* s is the surplus of the two documents at its timestamp.
IsSurplusOf(s, gen_doc, load_doc) ==
    /\ s.generation = AggQuantity(gen_doc, s.timestamp)
    /\ s.load = AggQuantity(load_doc, s.timestamp)
    /\ s.surplus = s.generation - s.load

\* C8: every RenewableSurplus of either function holds the aggregated
\* generation and the aggregated load of its timestamp, and their difference.
C8_SurplusIsGenerationMinusLoad ==
    /\ SeriesReturned =>
          \A i \in 1..Len(result.val) :
              IsSurplusOf(result.val[i], genFut.val, loadFut.val)
    /\ (pc = "done" /\ op = "max" /\ IsOk(result)) =>
          IsSurplusOf(result.val, genFut.val, loadFut.val)

\* A series with a negative and a positive surplus.
C8_Witness ==
    /\ SeriesReturned
    /\ \E i, j \in 1..Len(result.val) :
          result.val[i].surplus < 0 /\ result.val[j].surplus > 0

\* C9: the series get_renewable_surplus_series returns is in ascending order
\* of timestamp.
C9_SeriesSorted ==
    SeriesReturned =>
        \A i, j \in 1..Len(result.val) :
            i < j => result.val[i].timestamp < result.val[j].timestamp

\* Two or more matched points, from a generation sub-series not in wire order.
C9_Witness ==
    /\ SeriesReturned
    /\ Len(result.val) >= 2
    /\ \E k \in 1..Len(genFut.val.time_series) :
          LET pts == genFut.val.time_series[k].period.points
          IN Len(pts) = 2 /\ pts[1].position.low > pts[2].position.low

ScenarioGen == [time_series |-> <<[period |-> JoinPeriod(<<Point(1, 100), Point(2, 150)>>)]>>]

ScenarioLoad == [time_series |-> <<[period |-> JoinPeriod(<<Point(1, 80), Point(2, 200)>>)]>>]

MaxCalled == pc = "done" /\ op = "max" /\ IsOk(genFut) /\ IsOk(loadFut)

\* C10: when a timestamp is matched, find_max_renewable_surplus returns a
\* matched point whose surplus is at least that of every matched point; on
\* generation [(t0,100),(t1,150)] and load [(t0,80),(t1,200)] that is the point
\* at t0, of surplus 20.
C10_MaxIsGreatest ==
    /\ (MaxCalled /\ WellFormed(genFut.val) /\ WellFormed(loadFut.val) /\ Matched # {}) =>
          /\ IsOk(result)
          /\ result.val.timestamp \in Matched
          /\ IsSurplusOf(result.val, genFut.val, loadFut.val)
          /\ \A t \in Matched :
                AggQuantity(genFut.val, t) - AggQuantity(loadFut.val, t)
                    <= result.val.surplus
    /\ (MaxCalled /\ genFut.val = ScenarioGen /\ loadFut.val = ScenarioLoad) =>
          /\ IsOk(result)
          /\ result.val.timestamp = parse_timestamp(T0000).val
          /\ result.val.surplus = 20

\* The scenario: two matched points, surplus 20 at t0 and -50 at t1.
C10_Witness ==
    /\ MaxCalled
    /\ genFut.val = ScenarioGen
    /\ loadFut.val = ScenarioLoad
    /\ IsOk(result)
    /\ Cardinality(Matched) = 2

\* C11: when no generation timestamp has a load timestamp equal to it,
\* find_max_renewable_surplus fails with InvalidResponse and
\* get_renewable_surplus_series succeeds with an empty sequence.
C11_NoMatch ==
    (/\ pc = "done" /\ IsOk(genFut) /\ IsOk(loadFut)
     /\ WellFormed(genFut.val) /\ WellFormed(loadFut.val)
     /\ Matched = {}) =>
        /\ op = "max" => /\ IsErr(result)
                         /\ result.kind = "InvalidResponse"
                         /\ result.text = NoMatchingText
        /\ op = "series" => /\ IsOk(result)
                            /\ Len(result.val) = 0

\* The maximum is asked of an empty generation series joined with a load
\* series that holds points.
C11_Witness ==
    /\ pc = "done" /\ op = "max" /\ IsOk(genFut) /\ IsOk(loadFut)
    /\ WellFormed(genFut.val) /\ WellFormed(loadFut.val)
    /\ RawTimestamps(genFut.val) = {}
    /\ RawTimestamps(loadFut.val) # {}
    /\ IsErr(result)

\* A document with no raw point: no sub-series, or only sub-series whose
\* point lists are empty.
EmptyDocument(d) ==
    \A k \in 1..Len(d.time_series) : Len(d.time_series[k].period.points) = 0

\* C12 as stated: all_timestamped_points returns an empty sequence and never
\* an error for a document with no sub-series or with only sub-series whose
\* point lists are empty.
C12_EmptyDocumentNeverFails ==
    (aggOut # NoResult /\ EmptyDocument(doc)) => aggOut = Ok(<< >>)

\* C12 amended: all_timestamped_points returns an empty sequence and never an
\* error for a document with no sub-series or with only sub-series whose
\* point lists are empty and whose start and resolution parse.
C12_EmptyWellFormedDocumentIsEmpty ==
    (aggOut # NoResult /\ EmptyDocument(doc) /\ WellFormed(doc)) => aggOut = Ok(<< >>)

\* Two well-formed sub-series without points are aggregated.
C12_Witness ==
    /\ aggOut = Ok(<< >>)
    /\ Len(doc.time_series) = 2
    /\ EmptyDocument(doc)
    /\ WellFormed(doc)

\* The first sub-series of d, in document order, whose start or resolution
\* does not parse.
FirstMalformed(d) ==
    LET k == CHOOSE j \in 1..Len(d.time_series) :
                 /\ IsErr(timestamped_points(d.time_series[j].period))
                 /\ \A i \in 1..(j - 1) : IsOk(timestamped_points(d.time_series[i].period))
    IN  d.time_series[k].period

\* The error a malformed sub-series stands for: its start is looked at before
\* its resolution, and the error carries the string that did not parse.
MalformedError(p) ==
    IF IsErr(parse_timestamp(p.start)) THEN Err("InvalidTimestamp", p.start)
    ELSE Err("InvalidResolution", p.resolution)

\* d has a malformed sub-series next to a well-formed one that holds points.
MixedDocument(d) ==
    /\ ~WellFormed(d)
    /\ \E k \in 1..Len(d.time_series) :
          /\ IsOk(timestamped_points(d.time_series[k].period))
          /\ Len(d.time_series[k].period.points) > 0

\* C13: a document with a malformed sub-series makes all_timestamped_points
\* return the InvalidTimestamp or InvalidResolution of that sub-series and no
\* points, whatever the other sub-series hold, and both join operations
\* return that same error: the generation document's first, else the load
\* document's.
C13_NoPartialSuccess ==
    (pc = "done" /\ IsOk(genFut) /\ IsOk(loadFut)) =>
        /\ ~WellFormed(genFut.val) =>
              /\ \A order \in HashMapOrders(genFut.val) :
                    all_timestamped_points(genFut.val, order)
                        = MalformedError(FirstMalformed(genFut.val))
              /\ result = MalformedError(FirstMalformed(genFut.val))
        /\ ~WellFormed(loadFut.val) =>
              /\ \A order \in HashMapOrders(loadFut.val) :
                    all_timestamped_points(loadFut.val, order)
                        = MalformedError(FirstMalformed(loadFut.val))
              /\ WellFormed(genFut.val) =>
                    result = MalformedError(FirstMalformed(loadFut.val))

\* The series is asked of a well-formed generation forecast and a load
\* forecast whose second sub-series has an unparseable start, the first one
\* holding points.
C13_Witness ==
    /\ pc = "done" /\ op = "series" /\ IsOk(genFut) /\ IsOk(loadFut)
    /\ WellFormed(genFut.val)
    /\ RawTimestamps(genFut.val) # {}
    /\ MixedDocument(loadFut.val)
    /\ IsOk(timestamped_points(loadFut.val.time_series[1].period))
    /\ result = Err("InvalidTimestamp", TBad)

\* Consecutive timestamps of the series are all the same distance apart.
EvenlySpaced(points) ==
    \A i \in 2..Len(points) :
        points[i].timestamp - points[i - 1].timestamp
            = points[2].timestamp - points[1].timestamp

\* C14 as stated: the output of all_timestamped_points, fed back as the
\* points of a single sub-series that starts at the first timestamp with the
\* first gap as its resolution, aggregates to the same sequence of
\* (timestamp, position, quantity).
C14_Idempotent ==
    againOut # NoResult => againOut = aggOut

\* C14 amended: the output of all_timestamped_points, when its timestamps are
\* evenly spaced, fed back as the points of a single sub-series that starts
\* at the first timestamp with that spacing as its resolution, aggregates to
\* the same sequence of (timestamp, position, quantity).
C14_IdempotentWhenEvenlySpaced ==
    (againOut # NoResult /\ EvenlySpaced(aggOut.val)) => againOut = aggOut

\* Two sub-series merged into at least three evenly spaced points, one of
\* them a sum, and aggregated again to the same sequence.
C14_Witness ==
    /\ againOut # NoResult
    /\ againOut = aggOut
    /\ Len(doc.time_series) = 2
    /\ Len(aggOut.val) >= 3
    /\ \E i \in 1..Len(aggOut.val) : aggOut.val[i].quantity = 20

\* The form "PT" + decimal digits + "M".
MinutesForm(s) ==
    /\ Len(s) >= 4
    /\ s[1] = "P" /\ s[2] = "T" /\ s[Len(s)] = "M"
    /\ \A i \in 3..(Len(s) - 1) : s[i] \in Digits

\* C15: parse_resolution returns the whole number of minutes written in a
\* string of the form "PT" + decimal digits + "M" and fails with
\* InvalidResolution carrying the original string for every other string.
C15_OnlyMinutesFormAccepted ==
    (parseFn = "resolution" /\ parseOut # NoResult) =>
        parseOut = IF MinutesForm(parseIn)
                   THEN Ok(60 * DecimalVal(SubSeq(parseIn, 3, Len(parseIn) - 1)))
                   ELSE Err("InvalidResolution", parseIn)

\* The two digits of s at i and i + 1, as a number.
TwoDigits(s, i) == 10 * DigitVal(s[i]) + DigitVal(s[i + 1])

\* Midnight UTC of the days of DatePrefixes that exist, in seconds since the
\* epoch.
Midnight(s) ==
    IF SubSeq(s, 1, 10) = <<"2", "0", "2", "3", "-", "0", "8", "-", "1", "4">>
    THEN 1691971200
    ELSE 1709164800

\* s starts with an existing day followed by "T", an hour below 24, ":" and
\* a minute below 60.
MinuteStamp(s) ==
    /\ Len(s) >= 16
    /\ SubSeq(s, 1, 11) \in {<<"2", "0", "2", "3", "-", "0", "8", "-", "1", "4", "T">>,
                             <<"2", "0", "2", "4", "-", "0", "2", "-", "2", "9", "T">>}
    /\ s[12] \in Digits /\ s[13] \in Digits /\ TwoDigits(s, 12) < 24
    /\ s[14] = ":"
    /\ s[15] \in Digits /\ s[16] \in Digits /\ TwoDigits(s, 15) < 60

\* The 17-character form, seconds omitted.
CompactStamp(s) == MinuteStamp(s) /\ Len(s) = 17 /\ s[17] = "Z"

\* The 20-character form with seconds below 60.
FullStamp(s) ==
    /\ MinuteStamp(s) /\ Len(s) = 20 /\ s[17] = ":" /\ s[20] = "Z"
    /\ s[18] \in Digits /\ s[19] \in Digits /\ TwoDigits(s, 18) < 60

\* The instant s names at the given second of its minute.
InstantOf(s, second) ==
    Midnight(s) + 3600 * TwoDigits(s, 12) + 60 * TwoDigits(s, 15) + second

\* C16: parse_timestamp reads a 17-character start ending in "Z" as the UTC
\* instant of that minute at second zero, and fails with InvalidTimestamp
\* carrying the original string for a string that is neither that form nor a
\* full timestamp with seconds.
C16_SecondsDefaultToZero ==
    (parseFn = "timestamp" /\ parseOut # NoResult) =>
        /\ CompactStamp(parseIn) => parseOut = Ok(InstantOf(parseIn, 0))
        /\ FullStamp(parseIn) => parseOut = Ok(InstantOf(parseIn, TwoDigits(parseIn, 18)))
        /\ (~CompactStamp(parseIn) /\ ~FullStamp(parseIn)) =>
              parseOut = Err("InvalidTimestamp", parseIn)

\* 2024-02-29T23:59Z is parsed to the last minute of the leap day.
C16_Witness ==
    /\ parseFn = "timestamp"
    /\ Len(parseIn) = 17
    /\ parseOut = Ok(1709164800 + 23 * 3600 + 59 * 60)

\* The elements of s at the indices of I, in the order of s.
SubsequenceAt(s, I) ==
    [k \in 1..Cardinality(I) |->
        s[CHOOSE i \in I : Cardinality({j \in I : j <= i}) = k]]

\* The second of the UTC day is at or after 22:00:00 or before 06:00:00.
AtNight(timestamp) ==
    (timestamp % 86400) >= 22 * 3600 \/ (timestamp % 86400) < 6 * 3600

\* C17: filter_night_hours returns, in their original order, exactly the
\* points whose UTC hour h has h >= 22 or h < 6: 21:59 and 06:00 are left
\* out, 22:00 and 05:59 are kept.
C17_NightFilter ==
    (filterFn = "night" /\ filterOut # NoResult) =>
        /\ filterOut = Returned(SubsequenceAt(filterSeries,
                          {i \in 1..Len(filterSeries) : AtNight(filterSeries[i].timestamp)}))
        /\ \A i \in 1..Len(filterOut.val) :
              filterOut.val[i].timestamp \notin {At(21, 59), At(6, 0)}
        /\ \A i \in 1..Len(filterSeries) :
              filterSeries[i].timestamp \in {At(22, 0), At(5, 59)} =>
                  \E k \in 1..Len(filterOut.val) : filterOut.val[k] = filterSeries[i]

\* The four boundary points, given out of time order, are filtered to the two
\* inside the night, in the order they were given.
C17_Witness ==
    /\ filterFn = "night"
    /\ [i \in 1..Len(filterSeries) |-> filterSeries[i].timestamp]
          = <<At(6, 0), At(22, 0), At(21, 59), At(5, 59)>>
    /\ filterOut # NoResult
    /\ [i \in 1..Len(filterOut.val) |-> filterOut.val[i].timestamp]
          = <<At(22, 0), At(5, 59)>>

\* timestamp lies in the closed interval [now, now + hours]: `hours` of 2^31
\* and more reach past every instant of the series.
InWindow(timestamp, now, hours) ==
    /\ now <= timestamp
    /\ IF hours.top = 1 THEN TRUE ELSE timestamp - now <= 3600 * hours.low

\* C18: filter_next_hours(series, N) returns exactly the points with
\* now <= timestamp <= now + N hours, both ends included, for the one clock
\* reading `now` taken at the start of the call.
C18_ClosedWindowFromNow ==
    (filterFn = "next" /\ filterOut # NoResult) =>
        filterOut = Returned(SubsequenceAt(filterSeries,
                        {i \in 1..Len(filterSeries) :
                            InWindow(filterSeries[i].timestamp, filterNow, filterHours)}))

\* r rounded to two decimals, in hundredths.
Hundredths(r) ==
    IF r.num < 0 THEN 0 - ((200 * (0 - r.num) + r.den) \div (2 * r.den))
    ELSE (200 * r.num + r.den) \div (2 * r.den)

\* C19: surplus_percentage is 0 when generation is exactly 0 and
\* (surplus / generation) * 100 for every other generation, however small;
\* it is 20.0 for (generation 100, load 80) and -33.33 to two decimals for
\* (generation 150, load 200).
C19_PercentageOfGeneration ==
    percentOut # NoResult =>
        /\ surplusIn.generation = 0 => percentOut.num = 0
        /\ surplusIn.generation # 0 =>
              /\ percentOut.den > 0
              /\ percentOut.num * surplusIn.generation
                    = 100 * surplusIn.surplus * percentOut.den
        /\ (surplusIn.generation = 100 /\ surplusIn.load = 80) =>
              (percentOut.num = 20 /\ percentOut.den = 1)
        /\ (surplusIn.generation = 150 /\ surplusIn.load = 200) =>
              Hundredths(percentOut) = 0 - 3333
        /\ (surplusIn.generation = 1 /\ surplusIn.load = 80) =>
              (percentOut.num = 0 - 7900 /\ percentOut.den = 1)

\* The percentage of (generation 150, load 200) is -100/3.
C19_Witness ==
    /\ surplusIn # NoResult
    /\ surplusIn.generation = 150
    /\ surplusIn.load = 200
    /\ percentOut = [num |-> 0 - 100, den |-> 3]

\* C20: for a Period whose start and resolution parse, timestamped_points
\* returns one point per raw point, in the order of the raw points, each with
\* the wire position and the quantity of its raw point; equal positions stay
\* separate points.
C20_OnePointPerRawPoint ==
    (periodOut # NoResult /\ IsOk(periodOut)) =>
        /\ Len(periodOut.val) = Len(period.points)
        /\ \A i \in 1..Len(period.points) :
              /\ periodOut.val[i].position = period.points[i].position
              /\ periodOut.val[i].quantity = period.points[i].quantity

\* Two raw points with the same wire position and different quantities come
\* back as two points, in the order given.
C20_Witness ==
    /\ IsOk(periodOut)
    /\ Len(period.points) = 2
    /\ period.points[1].position = U32(3)
    /\ period.points[2].position = U32(3)
    /\ period.points[1].quantity = 10
    /\ period.points[2].quantity = 5
    /\ Len(periodOut.val) = 2
    /\ periodOut.val[1].quantity = 10
    /\ periodOut.val[2].quantity = 5
    /\ periodOut.val[1].timestamp = periodOut.val[2].timestamp

\* The raw quantities of all sub-series of d, whatever their timestamps.
RawQuantities(d) ==
    UNION {{d.time_series[k].period.points[i].quantity :
                i \in 1..Len(d.time_series[k].period.points)} :
           k \in 1..Len(d.time_series)}

\* C21: min_max returns None exactly when no sub-series of the document has
\* a point, and otherwise (lo, hi), both quantities of raw points, with
\* lo <= q <= hi for every raw quantity q, whether or not the starts and
\* resolutions of the sub-series parse.
C21_MinMaxOfRawQuantities ==
    (statsFn = "min_max" /\ statsOut # NoResult) =>
        /\ statsOut = OptionNone <=> RawQuantities(doc) = {}
        /\ statsOut # OptionNone =>
              /\ statsOut.tag = "Some"
              /\ statsOut.val[1].kind = "finite"
              /\ statsOut.val[2].kind = "finite"
              /\ statsOut.val[1].val \in RawQuantities(doc)
              /\ statsOut.val[2].val \in RawQuantities(doc)
              /\ \A q \in RawQuantities(doc) :
                    statsOut.val[1].val <= q /\ q <= statsOut.val[2].val

\* Two points at one position of a sub-series whose resolution does not parse
\* next to a well-formed one: the extremes are the raw quantities 5 and 10,
\* not their sum.
C21_Witness ==
    /\ statsFn = "min_max"
    /\ ~WellFormed(doc)
    /\ Len(doc.time_series) = 2
    /\ doc.time_series[1].period.points = <<Point(1, 5), Point(1, 10)>>
    /\ statsOut = Some(<<Finite(5), Finite(10)>>)

\* p is the point of the aggregated series of d at its timestamp: the summed
\* quantity and the rank of the timestamp as position.
IsAggregatedPoint(p, d) ==
    /\ p.timestamp \in RawTimestamps(d)
    /\ p.quantity = AggQuantity(d, p.timestamp)
    /\ p.position = U32(Cardinality({t \in RawTimestamps(d) : t <= p.timestamp}))

\* C22: min_max_with_time returns the aggregation error when a sub-series is
\* malformed, None exactly when the aggregated series is empty, and
\* otherwise two points of the aggregated series with
\* min.quantity <= q <= max.quantity for every aggregated quantity q.
C22_MinMaxOfAggregatedSeries ==
    (statsFn = "min_max_with_time" /\ statsOut # NoResult) =>
        /\ ~WellFormed(doc) => statsOut = MalformedError(FirstMalformed(doc))
        /\ WellFormed(doc) =>
              /\ IsOk(statsOut)
              /\ statsOut.val = OptionNone <=> RawTimestamps(doc) = {}
              /\ statsOut.val # OptionNone =>
                    /\ statsOut.val.tag = "Some"
                    /\ IsAggregatedPoint(statsOut.val.val[1], doc)
                    /\ IsAggregatedPoint(statsOut.val.val[2], doc)
                    /\ \A t \in RawTimestamps(doc) :
                          /\ statsOut.val.val[1].quantity <= AggQuantity(doc, t)
                          /\ AggQuantity(doc, t) <= statsOut.val.val[2].quantity

\* Two sub-series meet at a timestamp: the greatest point carries a sum that
\* is no raw quantity, and the least point is another point.
C22_Witness ==
    /\ statsFn = "min_max_with_time"
    /\ IsOk(statsOut)
    /\ statsOut.val # OptionNone
    /\ Len(doc.time_series) = 2
    /\ statsOut.val.val[2].quantity \notin RawQuantities(doc)
    /\ statsOut.val.val[1].quantity < statsOut.val.val[2].quantity
    /\ statsOut.val.val[1].position # statsOut.val.val[2].position

\* The surplus of the two fetched documents at a matched timestamp.
SurplusAt(t) == AggQuantity(genFut.val, t) - AggQuantity(loadFut.val, t)

\* The timestamps of S whose surplus no timestamp of S exceeds.
TiedGreatest(S) == {t \in S : \A u \in S : SurplusAt(u) <= SurplusAt(t)}

Latest(S) == CHOOSE t \in S : \A u \in S : u <= t

\* The matched timestamps filter_night_hours keeps.
NightMatched == {t \in Matched : AtNight(t)}

\* C23: when several matched points share the greatest surplus,
\* find_max_renewable_surplus returns the one with the latest timestamp, and
\* find_max, given the filtered series in ascending timestamp order, returns
\* the last of them in that sequence, which is the one with the latest
\* timestamp.
C23_LastOfTiedMaxima ==
    /\ (MaxCalled /\ WellFormed(genFut.val) /\ WellFormed(loadFut.val) /\ Matched # {}) =>
          /\ IsOk(result)
          /\ result.val.timestamp = Latest(TiedGreatest(Matched))
    /\ (SeriesReturned /\ handlerOut # NoResult) =>
          /\ IsOk(handlerOut)
          /\ handlerOut.val = OptionNone <=> NightMatched = {}
          /\ handlerOut.val # OptionNone =>
                /\ handlerOut.val.val.timestamp = Latest(TiedGreatest(NightMatched))
                /\ \E i \in 1..Len(result.val) :
                      /\ result.val[i] = handlerOut.val.val
                      /\ \A j \in (i + 1)..Len(result.val) :
                            ~(/\ AtNight(result.val[j].timestamp)
                              /\ result.val[j].surplus >= result.val[i].surplus)

\* Two matched points share the greatest surplus and the later one is
\* returned.
C23_Witness ==
    /\ MaxCalled
    /\ WellFormed(genFut.val) /\ WellFormed(loadFut.val)
    /\ Cardinality(TiedGreatest(Matched)) >= 2
    /\ IsOk(result)
    /\ result.val.timestamp = Latest(Matched)
    /\ \E t \in Matched : t < result.val.timestamp /\ SurplusAt(t) = result.val.surplus

\* What find_max_renewable_surplus returned (p) agrees with what
\* get_renewable_surplus_series returned (s) for the same documents.
Agree(p, s) ==
    /\ IsOk(p) <=> (IsOk(s) /\ Len(s.val) > 0)
    /\ IsOk(p) =>
          /\ \E i \in 1..Len(s.val) : s.val[i] = p.val
          /\ find_max(s.val) = Some(p.val)
    /\ (IsErr(p) /\ p.kind = "InvalidResponse") <=> (IsOk(s) /\ Len(s.val) = 0)

\* What all_timestamped_points can return for d, over every order the
\* HashMap can be iterated in.
Aggregates(d) == {all_timestamped_points(d, order) : order \in HashMapOrders(d)}

\* C24: for the same pair of fetched documents, find_max_renewable_surplus
\* returns Ok(p) exactly when get_renewable_surplus_series returns a
\* non-empty series s, p is then an element of s and is find_max(s), and it
\* returns InvalidResponse exactly when s is empty.
C24_JoinVariantsAgree ==
    (pc = "done" /\ IsOk(genFut) /\ IsOk(loadFut)) =>
        \A gen_points \in Aggregates(genFut.val), load_points \in Aggregates(loadFut.val) :
            IF op = "max"
            THEN Agree(result, series_of_points(gen_points, load_points))
            ELSE Agree(max_of_points(gen_points, load_points), result)

\* The greater of two matched points is returned, and it is not the first
\* element of the series.
C24_Witness ==
    /\ MaxCalled
    /\ WellFormed(genFut.val) /\ WellFormed(loadFut.val)
    /\ Cardinality(Matched) = 2
    /\ IsOk(result)
    /\ \E t \in Matched : t < result.val.timestamp /\ SurplusAt(t) < result.val.surplus

====
